---- MODULE Spec2Model ----
(***************************************************************************)
(* Miss Fortune (src/agent/main.py): the tool library and the state bridge *)
(* of the Polymarket agent, as a state machine.                            *)
(*                                                                         *)
(* Python values are tagged records, so that isinstance() can be decided:  *)
(*   None, bool, int/float, str, list, dict.                               *)
(* A str is either opaque (JStr, its content an atom) or a text whose      *)
(* content is given at the level of JSON tokens (JText); json.loads is a   *)
(* parser over those tokens and json.dumps the serializer producing them.  *)
(* Whitespace between tokens (indent=2) is not represented.                *)
(***************************************************************************)
EXTENDS Integers, Sequences, FiniteSets, TLC

VARIABLES
    agent_state,   \* the shared AgentState snapshot held by the agent runtime
    prev_state,    \* history: agent_state as it was before the last operation
    clob_env,      \* os.getenv("POLYMARKET_PRIVATE_KEY"): "" when unset
    clob_client,   \* module-level trading client: "None" or "client"
    exa_client,    \* module-level research client: "None" or "client"
    last_tool,     \* name of the operation that ran last ("none" at start)
    tool_input,    \* the arguments it was called with
    upstream,      \* what the outbound call of that invocation met
    requests_made, \* the outbound calls that invocation made, in order
    result,        \* what it returned
    snapshot,      \* what the argument extractor returned for it (None otherwise)
    raised         \* whether an exception propagated out of it

vars == <<agent_state, prev_state, clob_env, clob_client, exa_client, last_tool, tool_input,
          upstream, requests_made, result, snapshot, raised>>

----------------------------------------------------------------------------
(* Bounds of the model *)

MaxMarkets == 2        \* markets in one watchlist update
MaxPositions == 1      \* positions in one watchlist update
MaxNestedMarkets == 1  \* markets in one nested-convention update
MaxListing == 2        \* markets (or events) in one upstream listing

----------------------------------------------------------------------------
(* Python / JSON values *)

None == [t |-> "null"]
JBool(b) == [t |-> "bool", b |-> b]
JNum(n) == [t |-> "num", n |-> n]
JStr(s) == [t |-> "str", s |-> s]
JText(toks) == [t |-> "text", toks |-> toks]
JList(items) == [t |-> "list", items |-> items]
JDict(d) == [t |-> "dict", d |-> d]

EmptyDict == [k \in {} |-> None]

\* isinstance(v, str)
IsStr(v) == v.t \in {"str", "text"}

\* bool(v)
Truthy(v) ==
    CASE v.t = "null" -> FALSE
      [] v.t = "bool" -> v.b
      [] v.t = "num"  -> v.n # 0
      [] v.t = "str"  -> v.s # ""
      [] v.t = "text" -> v.toks # <<>>
      [] v.t = "list" -> v.items # <<>>
      [] v.t = "dict" -> DOMAIN v.d # {}

\* d.get(key, default) on the mapping of a dict
dict_get(d, key, default) == IF key \in DOMAIN d THEN d[key] ELSE default

\* d[key] = val
dict_set(d, key, val) ==
    [k \in DOMAIN d \cup {key} |-> IF k = key THEN val ELSE d[k]]

\* outcome of a call: a returned value or a raised exception
Return(v) == [exc |-> FALSE, val |-> v]
Raise(msg) == [exc |-> TRUE, msg |-> msg]

----------------------------------------------------------------------------
(* JSON text: tokens, json.loads, json.dumps *)

P(c) == [k |-> "p", c |-> c]          \* punctuation { } [ ] : ,
S(s) == [k |-> "s", s |-> s]          \* string literal with opaque content
ST(toks) == [k |-> "st", toks |-> toks] \* string literal whose content is a text
N(n) == [k |-> "n", n |-> n]          \* number literal
W(w) == [k |-> "w", w |-> w]          \* bare word: null, true, false, or junk
Lit(c) == [k |-> "lit", c |-> c]      \* literal characters of a non-JSON text

ParseOk(v, i) == [ok |-> TRUE, val |-> v, next |-> i]
ParseFail == [ok |-> FALSE]

RECURSIVE parse_value(_, _), parse_items(_, _, _), parse_members(_, _, _)

\* json decoder: one value starting at token i
parse_value(toks, i) ==
    IF i > Len(toks) THEN ParseFail
    ELSE LET tk == toks[i] IN
         CASE tk.k = "s"  -> ParseOk(JStr(tk.s), i + 1)
           [] tk.k = "st" -> ParseOk(JText(tk.toks), i + 1)
           [] tk.k = "n"  -> ParseOk(JNum(tk.n), i + 1)
           [] tk.k = "w"  ->
                CASE tk.w = "null"  -> ParseOk(None, i + 1)
                  [] tk.w = "true"  -> ParseOk(JBool(TRUE), i + 1)
                  [] tk.w = "false" -> ParseOk(JBool(FALSE), i + 1)
                  [] OTHER -> ParseFail
           [] tk.k = "p" ->
                CASE tk.c = "[" ->
                       IF i + 1 <= Len(toks) /\ toks[i + 1] = P("]")
                       THEN ParseOk(JList(<<>>), i + 2)
                       ELSE parse_items(toks, i + 1, <<>>)
                  [] tk.c = "{" ->
                       IF i + 1 <= Len(toks) /\ toks[i + 1] = P("}")
                       THEN ParseOk(JDict(EmptyDict), i + 2)
                       ELSE parse_members(toks, i + 1, EmptyDict)
                  [] OTHER -> ParseFail
           [] OTHER -> ParseFail

\* json decoder: the elements of an array, up to its closing bracket
parse_items(toks, i, acc) ==
    LET r == parse_value(toks, i) IN
    IF ~r.ok THEN ParseFail
    ELSE IF r.next > Len(toks) THEN ParseFail
    ELSE IF toks[r.next] = P(",") THEN parse_items(toks, r.next + 1, Append(acc, r.val))
    ELSE IF toks[r.next] = P("]") THEN ParseOk(JList(Append(acc, r.val)), r.next + 1)
    ELSE ParseFail

\* json decoder: the members of an object, up to its closing brace
parse_members(toks, i, acc) ==
    IF i + 1 > Len(toks) THEN ParseFail
    ELSE IF toks[i].k # "s" \/ toks[i + 1] # P(":") THEN ParseFail
    ELSE LET r == parse_value(toks, i + 2) IN
         IF ~r.ok THEN ParseFail
         ELSE IF r.next > Len(toks) THEN ParseFail
         ELSE IF toks[r.next] = P(",")
              THEN parse_members(toks, r.next + 1, dict_set(acc, toks[i].s, r.val))
         ELSE IF toks[r.next] = P("}")
              THEN ParseOk(JDict(dict_set(acc, toks[i].s, r.val)), r.next + 1)
         ELSE ParseFail

\* the tokens of a str: an opaque str is no JSON document and lexes as one junk word
tokens_of(v) == IF v.t = "text" THEN v.toks ELSE <<W(v.s)>>

\* json.loads(v): TypeError for a non-str, JSONDecodeError for a text that is
\* not exactly one JSON value
json_loads(v) ==
    IF ~IsStr(v) THEN Raise("TypeError")
    ELSE LET toks == tokens_of(v)
             r == parse_value(toks, 1)
         IN IF r.ok /\ r.next = Len(toks) + 1 THEN Return(r.val)
            ELSE Raise("JSONDecodeError")

\* the order in which json.dumps emits the keys the model uses (Python keeps
\* insertion order; every dict the program builds inserts in this order)
KeyOrder ==
    <<"error", "status", "order", "result", "address", "balance",
      "id", "question", "description", "outcomes", "outcome_prices",
      "outcomePrices", "volume", "volume_24h", "volume24hr", "liquidity",
      "end_date", "endDate", "clob_token_ids", "clobTokenIds", "neg_risk",
      "negRisk", "markets", "positions", "last_action", "wallet_balance",
      "total_pnl", "market_question", "outcome", "size", "title", "url",
      "published_date", "text", "bids", "asks", "history", "token_id",
      "price", "side">>

RECURSIVE json_dumps(_), dumps_items(_, _), dumps_members(_, _, _)

\* the keys of d, in that order
keys_of(d) == SelectSeq(KeyOrder, LAMBDA k : k \in DOMAIN d)

\* json.dumps(v) as tokens
json_dumps(v) ==
    CASE v.t = "null" -> <<W("null")>>
      [] v.t = "bool" -> <<W(IF v.b THEN "true" ELSE "false")>>
      [] v.t = "num"  -> <<N(v.n)>>
      [] v.t = "str"  -> <<S(v.s)>>
      [] v.t = "text" -> <<ST(v.toks)>>
      [] v.t = "list" -> <<P("[")>> \o dumps_items(v.items, 1) \o <<P("]")>>
      [] v.t = "dict" -> <<P("{")>> \o dumps_members(v.d, keys_of(v.d), 1) \o <<P("}")>>

dumps_items(items, i) ==
    IF i > Len(items) THEN <<>>
    ELSE (IF i > 1 THEN <<P(",")>> ELSE <<>>)
         \o json_dumps(items[i]) \o dumps_items(items, i + 1)

dumps_members(d, keys, i) ==
    IF i > Len(keys) THEN <<>>
    ELSE (IF i > 1 THEN <<P(",")>> ELSE <<>>)
         \o <<S(keys[i]), P(":")>> \o json_dumps(d[keys[i]])
         \o dumps_members(d, keys, i + 1)

\* str(v) inside an f-string: the content of a str, the repr of anything else
py_str(v) ==
    CASE v.t = "str"  -> <<Lit(v.s)>>
      [] v.t = "text" -> v.toks
      [] OTHER -> <<[k |-> "repr", v |-> v]>>

----------------------------------------------------------------------------
(* State bridge *)

\* AgentState(): every field at its default
AgentState ==
    JDict([markets |-> JList(<<>>), positions |-> JList(<<>>),
           last_action |-> JStr(""), wallet_balance |-> JStr(""),
           total_pnl |-> JNum(0)])

\* prompt_parts with the positions section put before the watchlist
prompt_parts_positions_first(d) ==
    (IF Truthy(dict_get(d, "positions", None))
     THEN <<<<Lit("Current positions:\n")>> \o json_dumps(d["positions"])>> ELSE <<>>)
    \o (IF Truthy(dict_get(d, "markets", None))
        THEN <<<<Lit("Current watchlist:\n")>> \o json_dumps(d["markets"])>> ELSE <<>>)
    \o (IF Truthy(dict_get(d, "wallet_balance", None))
        THEN <<<<Lit("Wallet USDC balance: ")>> \o py_str(d["wallet_balance"])>> ELSE <<>>)
    \o (IF Truthy(dict_get(d, "last_action", None))
        THEN <<<<Lit("Last action: ")>> \o py_str(d["last_action"])>> ELSE <<>>)

\* the sections build_market_prompt appends to parts, in order
prompt_parts(d) ==
    (IF Truthy(dict_get(d, "markets", None))
     THEN <<<<Lit("Current watchlist:\n")>> \o json_dumps(d["markets"])>> ELSE <<>>)
    \o (IF Truthy(dict_get(d, "positions", None))
        THEN <<<<Lit("Current positions:\n")>> \o json_dumps(d["positions"])>> ELSE <<>>)
    \o (IF Truthy(dict_get(d, "wallet_balance", None))
        THEN <<<<Lit("Wallet USDC balance: ")>> \o py_str(d["wallet_balance"])>> ELSE <<>>)
    \o (IF Truthy(dict_get(d, "last_action", None))
        THEN <<<<Lit("Last action: ")>> \o py_str(d["last_action"])>> ELSE <<>>)

RECURSIVE str_join(_, _, _)
\* sep.join(parts)
str_join(sep, parts, i) ==
    IF i > Len(parts) THEN <<>>
    ELSE (IF i > 1 THEN <<Lit(sep)>> ELSE <<>>) \o parts[i] \o str_join(sep, parts, i + 1)

\* build_market_prompt(input_data, user_message), input_data.state = state_dict
build_market_prompt(state_dict, user_message) ==
    IF state_dict.t = "dict"
    THEN LET parts == prompt_parts(state_dict.d) IN
         IF parts # <<>>
         THEN JText(str_join("\n\n", parts, 1)
                    \o <<Lit("\n\nUser request: ")>> \o py_str(user_message))
         ELSE user_message
    ELSE user_message

\* market_state_from_args without the isinstance(markets, list) test
market_state_from_args_any_markets(ti) ==
    LET loaded == IF IsStr(ti) THEN json_loads(ti) ELSE Return(ti) IN
    IF loaded.exc THEN None
    ELSE LET a == loaded.val IN
         IF a.t = "dict"
         THEN LET markets == dict_get(a.d, "markets", JList(<<>>))
                  positions == dict_get(a.d, "positions", JList(<<>>))
                  state == [markets |-> markets,
                            positions |-> IF Truthy(positions) THEN positions ELSE JList(<<>>),
                            last_action |-> dict_get(a.d, "last_action", JStr(""))]
              IN IF Truthy(dict_get(a.d, "wallet_balance", None))
                 THEN JDict(dict_set(state, "wallet_balance", a.d["wallet_balance"]))
                 ELSE JDict(state)
         ELSE None

\* market_state_from_args that always copies wallet_balance, "" when not supplied
market_state_from_args_always_wallet(ti) ==
    LET loaded == IF IsStr(ti) THEN json_loads(ti) ELSE Return(ti) IN
    IF loaded.exc THEN None
    ELSE LET a == loaded.val IN
         IF a.t = "dict"
         THEN LET markets == dict_get(a.d, "markets", JList(<<>>))
                  positions == dict_get(a.d, "positions", JList(<<>>))
                  state == [markets |-> markets,
                            positions |-> IF Truthy(positions) THEN positions ELSE JList(<<>>),
                            last_action |-> dict_get(a.d, "last_action", JStr("")),
                            wallet_balance |-> dict_get(a.d, "wallet_balance", JStr(""))]
              IN IF markets.t = "list" THEN JDict(state) ELSE None
         ELSE None

\* market_state_from_args reading tool_input.get("markets") with no default
market_state_from_args_no_default(ti) ==
    LET loaded == IF IsStr(ti) THEN json_loads(ti) ELSE Return(ti) IN
    IF loaded.exc THEN None
    ELSE LET a == loaded.val IN
         IF a.t = "dict"
         THEN LET markets == dict_get(a.d, "markets", None)
                  positions == dict_get(a.d, "positions", JList(<<>>))
                  state == [markets |-> markets,
                            positions |-> IF Truthy(positions) THEN positions ELSE JList(<<>>),
                            last_action |-> dict_get(a.d, "last_action", JStr(""))]
              IN IF markets.t = "list"
                 THEN IF Truthy(dict_get(a.d, "wallet_balance", None))
                      THEN JDict(dict_set(state, "wallet_balance", a.d["wallet_balance"]))
                      ELSE JDict(state)
                 ELSE None
         ELSE None

\* market_state_from_args(context), context.tool_input = ti
market_state_from_args(ti) ==
    LET loaded == IF IsStr(ti) THEN json_loads(ti) ELSE Return(ti) IN
    IF loaded.exc THEN None
    ELSE LET a == loaded.val IN
         IF a.t = "dict"
         THEN LET markets == dict_get(a.d, "markets", JList(<<>>))
                  positions == dict_get(a.d, "positions", JList(<<>>))
                  state == [markets |-> markets,
                            positions |-> IF Truthy(positions) THEN positions ELSE JList(<<>>),
                            last_action |-> dict_get(a.d, "last_action", JStr(""))]
              IN IF markets.t = "list"
                 THEN IF Truthy(dict_get(a.d, "wallet_balance", None))
                      THEN JDict(dict_set(state, "wallet_balance", a.d["wallet_balance"]))
                      ELSE JDict(state)
                 ELSE None
         ELSE None

\* a runtime that merges the snapshot into the state key by key
apply_state_from_args_merge(state, s) ==
    IF s # None
    THEN JDict([k \in DOMAIN state.d \cup DOMAIN s.d |->
                  IF k \in DOMAIN s.d THEN s.d[k] ELSE state.d[k]])
    ELSE state

\* the runtime's handling of ToolBehavior(state_from_args=...): a snapshot that
\* is not None replaces the shared state whole; None leaves it as it is
apply_state_from_args(state, s) == IF s # None THEN s ELSE state

----------------------------------------------------------------------------
(* Tool library: helpers *)

GAMMA_API == "https://gamma-api.polymarket.com"
CLOB_API == "https://clob.polymarket.com"
USDC_POLYGON == "0x2791Bca1f2de4661ED88A30C99A7a9449Aa84174"
POLYGON_RPC == "https://polygon-rpc.com"
NotConfigured == JStr("Trading not configured. Set POLYMARKET_PRIVATE_KEY.")

\* what an outbound call can meet
NoUpstream == [kind |-> "none"]
NetworkError == [kind |-> "network_error"]
HttpError == [kind |-> "http_error"]
BadKey == [kind |-> "bad_key"]
Ok(body) == [kind |-> "ok", body |-> body]
Failures == {NetworkError, HttpError}

\* requests.get/post(...); resp.raise_for_status(); resp.json()
fetch(up) ==
    CASE up.kind = "network_error" -> Raise("ConnectionError")
      [] up.kind = "http_error" -> Raise("HTTPError")
      [] up.kind = "ok" -> Return(up.body)

\* a call on clob_client or exa_client
client_call(up) ==
    IF up.kind = "ok" THEN Return(up.body) ELSE Raise("ClientError")

\* json.dumps({"error": str(e)})
error_result(msg) == JText(json_dumps(JDict([error |-> JStr(msg)])))

Min(a, b) == IF a < b THEN a ELSE b
Max(a, b) == IF a > b THEN a ELSE b

\* seq[:n]
slice_to(seq, n) ==
    IF n >= 0 THEN SubSeq(seq, 1, Min(n, Len(seq)))
    ELSE SubSeq(seq, 1, Max(0, Len(seq) + n))

\* v[:n] of a str or a list; TypeError for anything else
py_slice(v, n) ==
    CASE v.t = "str" -> Return(JStr(slice_to(v.s, n)))
      [] v.t = "text" -> Return(JText(slice_to(v.toks, n)))
      [] v.t = "list" -> Return(JList(slice_to(v.items, n)))
      [] OTHER -> Raise("TypeError")

\* the elements a for loop takes from v: the items of a list, the keys of a dict,
\* the characters of a str
py_iter(v) ==
    CASE v.t = "list" -> Return(v.items)
      [] v.t = "dict" ->
            Return([i \in 1..Len(keys_of(v.d)) |-> JStr(keys_of(v.d)[i])])
      [] v.t = "str" -> Return([i \in 1..Len(v.s) |-> JStr(SubSeq(v.s, i, i))])
      [] OTHER -> Raise("TypeError")

EmptyListText == JText(<<P("["), P("]")>>)

\* json.loads(mkt.get(key, "[]"))
loads_field(mkt, key) == json_loads(dict_get(mkt.d, key, EmptyListText))

\* the dict get_closing_soon_markets appends for one market
closing_row(mkt) ==
    IF mkt.t # "dict" THEN Raise("AttributeError")
    ELSE LET o == loads_field(mkt, "outcomes")
             p == loads_field(mkt, "outcomePrices")
         IN IF o.exc THEN o
            ELSE IF p.exc THEN p
            ELSE Return(JDict([id |-> dict_get(mkt.d, "id", JStr("")),
                               question |-> dict_get(mkt.d, "question", JStr("")),
                               outcomes |-> o.val,
                               outcome_prices |-> p.val,
                               volume |-> dict_get(mkt.d, "volume", JStr("0")),
                               volume_24h |-> dict_get(mkt.d, "volume24hr", JStr("0")),
                               liquidity |-> dict_get(mkt.d, "liquidity", JStr("0")),
                               end_date |-> dict_get(mkt.d, "endDate", JStr(""))]))

\* the dict search_markets appends for one market
search_row(mkt) ==
    IF mkt.t # "dict" THEN Raise("AttributeError")
    ELSE LET o == loads_field(mkt, "outcomes")
             p == loads_field(mkt, "outcomePrices")
         IN IF o.exc THEN o
            ELSE IF p.exc THEN p
            ELSE Return(JDict([id |-> dict_get(mkt.d, "id", JStr("")),
                               question |-> dict_get(mkt.d, "question", JStr("")),
                               outcomes |-> o.val,
                               outcome_prices |-> p.val,
                               volume |-> dict_get(mkt.d, "volume", JStr("0")),
                               liquidity |-> dict_get(mkt.d, "liquidity", JStr("0")),
                               end_date |-> dict_get(mkt.d, "endDate", JStr(""))]))

\* the dict get_market_details serializes
details_of(mkt) ==
    IF mkt.t # "dict" THEN Raise("AttributeError")
    ELSE LET desc == py_slice(dict_get(mkt.d, "description", JStr("")), 500)
             o == loads_field(mkt, "outcomes")
             p == loads_field(mkt, "outcomePrices")
             c == loads_field(mkt, "clobTokenIds")
         IN IF desc.exc THEN desc
            ELSE IF o.exc THEN o
            ELSE IF p.exc THEN p
            ELSE IF c.exc THEN c
            ELSE Return(JDict([id |-> dict_get(mkt.d, "id", JStr("")),
                               question |-> dict_get(mkt.d, "question", JStr("")),
                               description |-> desc.val,
                               outcomes |-> o.val,
                               outcome_prices |-> p.val,
                               volume |-> dict_get(mkt.d, "volume", JStr("0")),
                               liquidity |-> dict_get(mkt.d, "liquidity", JStr("0")),
                               end_date |-> dict_get(mkt.d, "endDate", JStr("")),
                               clob_token_ids |-> c.val,
                               neg_risk |-> dict_get(mkt.d, "negRisk", JBool(FALSE))]))

RECURSIVE closing_rows(_, _, _), search_rows(_, _, _), search_events(_, _, _)

\* the loop of get_closing_soon_markets over all_markets
closing_rows(all_markets, i, results) ==
    IF i > Len(all_markets) THEN Return(results)
    ELSE LET r == closing_row(all_markets[i]) IN
         IF r.exc THEN r ELSE closing_rows(all_markets, i + 1, Append(results, r.val))

\* the inner loop of search_markets over one event's markets
search_rows(mkts, i, results) ==
    IF i > Len(mkts) THEN Return(results)
    ELSE LET r == search_row(mkts[i]) IN
         IF r.exc THEN r ELSE search_rows(mkts, i + 1, Append(results, r.val))

\* the outer loop of search_markets over events
search_events(events, i, results) ==
    IF i > Len(events) THEN Return(results)
    ELSE IF events[i].t # "dict" THEN Raise("AttributeError")
    ELSE LET mkts == py_iter(dict_get(events[i].d, "markets", JList(<<>>))) IN
         IF mkts.exc THEN mkts
         ELSE LET r == search_rows(mkts.val, 1, results) IN
              IF r.exc THEN r ELSE search_events(events, i + 1, r.val)

\* str.upper() of an opaque str
LowerChars == "abcdefghijklmnopqrstuvwxyz"
UpperChars == "ABCDEFGHIJKLMNOPQRSTUVWXYZ"
upper_char(c) ==
    IF \E i \in 1..Len(LowerChars) : SubSeq(LowerChars, i, i) = c
    THEN LET i == CHOOSE j \in 1..Len(LowerChars) : SubSeq(LowerChars, j, j) = c
         IN SubSeq(UpperChars, i, i)
    ELSE c
RECURSIVE py_upper(_)
py_upper(s) ==
    IF s = "" THEN ""
    ELSE upper_char(SubSeq(s, 1, 1)) \o py_upper(SubSeq(s, 2, Len(s)))

\* int(v, 16): TypeError for a non-str, ValueError for a str that is no hex number
HexChars == "0123456789abcdef"
HexCharsUpper == "0123456789ABCDEF"
hex_digit(c) ==
    IF \E i \in 1..16 : SubSeq(HexChars, i, i) = c \/ SubSeq(HexCharsUpper, i, i) = c
    THEN (CHOOSE i \in 1..16 : SubSeq(HexChars, i, i) = c \/ SubSeq(HexCharsUpper, i, i) = c) - 1
    ELSE -1
RECURSIVE hex_value(_, _, _)
hex_value(s, i, acc) ==
    IF i > Len(s) THEN acc
    ELSE IF hex_digit(SubSeq(s, i, i)) < 0 THEN -1
    ELSE hex_value(s, i + 1, 16 * acc + hex_digit(SubSeq(s, i, i)))
py_int16(v) ==
    IF v.t # "str" THEN Raise("TypeError")
    ELSE LET digits == IF Len(v.s) >= 2 /\ SubSeq(v.s, 1, 2) \in {"0x", "0X"}
                       THEN SubSeq(v.s, 3, Len(v.s)) ELSE v.s
             n == hex_value(digits, 1, 0)
         IN IF digits = "" \/ n < 0 THEN Raise("ValueError") ELSE Return(n)

\* f"{balance_raw / 1e6:.2f}" (for raw amounts that are no exact half cent)
format_balance(balance_raw) ==
    LET cents == (balance_raw + 5000) \div 10000
        frac == cents % 100
    IN ToString(cents \div 100) \o "." \o (IF frac < 10 THEN "0" ELSE "") \o ToString(frac)

\* one source of exa_research
exa_row(r) ==
    JDict([title |-> r.d["title"], url |-> r.d["url"],
           published_date |-> r.d["published_date"],
           text |-> py_slice(IF Truthy(r.d["text"]) THEN r.d["text"] ELSE JStr(""), 1500).val])

----------------------------------------------------------------------------
(* Tool library: each tool gives what it returned or raised (out), the
   outbound calls it made (reqs) and what those met (met) *)

Ran(out, reqs, met) == [out |-> out, reqs |-> reqs, met |-> met]

get_closing_soon_markets(limit, up) ==
    LET reqs == <<[method |-> "GET", url |-> GAMMA_API \o "/markets", limit |-> limit]>>
        body == fetch(up)
        all_markets == IF body.exc THEN body ELSE py_iter(body.val)
        results == IF all_markets.exc THEN all_markets
                   ELSE closing_rows(all_markets.val, 1, <<>>)
    IN IF results.exc THEN Ran(Return(error_result(results.msg)), reqs, up)
       ELSE Ran(Return(JText(json_dumps(JList(slice_to(results.val, limit))))), reqs, up)

exa_research(query, num_results, up) ==
    IF exa_client = "None"
    THEN Ran(Return(error_result("Exa not configured. Set EXA_API_KEY.")), <<>>, NoUpstream)
    ELSE LET reqs == <<[op |-> "search_and_contents", query |-> query,
                        num_results |-> num_results]>>
             res == client_call(up)
         IN IF res.exc THEN Ran(Return(error_result(res.msg)), reqs, up)
            ELSE Ran(Return(JText(json_dumps(JList(
                       [i \in 1..Len(res.val.items) |-> exa_row(res.val.items[i])])))),
                     reqs, up)

search_markets(query, limit, up) ==
    LET reqs == <<[method |-> "GET", url |-> GAMMA_API \o "/events",
                   title |-> query, limit |-> limit]>>
        body == fetch(up)
        events == IF body.exc THEN body ELSE py_iter(body.val)
        results == IF events.exc THEN events ELSE search_events(events.val, 1, <<>>)
    IN IF results.exc THEN Ran(Return(error_result(results.msg)), reqs, up)
       ELSE Ran(Return(JText(json_dumps(JList(slice_to(results.val, limit))))), reqs, up)

get_market_details(market_id, up) ==
    LET reqs == <<[method |-> "GET", url |-> GAMMA_API \o "/markets/" \o market_id]>>
        body == fetch(up)
        details == IF body.exc THEN body ELSE details_of(body.val)
    IN IF details.exc THEN Ran(Return(error_result(details.msg)), reqs, up)
       ELSE Ran(Return(JText(json_dumps(details.val))), reqs, up)

get_order_book(token_id, up) ==
    LET reqs == <<[method |-> "GET", url |-> CLOB_API \o "/book", token_id |-> token_id]>>
        book == fetch(up)
    IN IF book.exc THEN Ran(Return(error_result(book.msg)), reqs, up)
       ELSE Ran(Return(JText(json_dumps(book.val))), reqs, up)

\* get_price_history with no try/except around the request
get_price_history_unguarded(token_id, up) ==
    LET reqs == <<[method |-> "GET", url |-> CLOB_API \o "/prices-history",
                   market |-> token_id, interval |-> "all"]>>
        history == fetch(up)
    IN IF history.exc THEN Ran(history, reqs, up)
       ELSE Ran(Return(JText(json_dumps(history.val))), reqs, up)

get_price_history(token_id, up) ==
    LET reqs == <<[method |-> "GET", url |-> CLOB_API \o "/prices-history",
                   market |-> token_id, interval |-> "all"]>>
        history == fetch(up)
    IN IF history.exc THEN Ran(Return(error_result(history.msg)), reqs, up)
       ELSE Ran(Return(JText(json_dumps(history.val))), reqs, up)

NoWallet ==
    JText(json_dumps(JDict([balance |-> JStr("0"), address |-> JStr(""),
                            error |-> JStr("No wallet configured")])))

get_wallet_balance(up) ==
    IF clob_env = "" THEN Ran(Return(NoWallet), <<>>, NoUpstream)
    ELSE IF up.kind = "bad_key" THEN Ran(Return(error_result("ValueError")), <<>>, up)
    ELSE LET address == "0xWalletAddress"
             reqs == <<[method |-> "POST", url |-> POLYGON_RPC, to |-> USDC_POLYGON,
                        owner |-> address]>>
             body == fetch(up)
             res == IF body.exc THEN body
                    ELSE IF body.val.t # "dict" THEN Raise("AttributeError")
                    ELSE Return(dict_get(body.val.d, "result", JStr("0x0")))
             balance_raw == IF res.exc THEN res ELSE py_int16(res.val)
         IN IF balance_raw.exc THEN Ran(Return(error_result(balance_raw.msg)), reqs, up)
            ELSE Ran(Return(JText(json_dumps(JDict(
                       [address |-> JStr(address),
                        balance |-> JStr(format_balance(balance_raw.val))])))),
                     reqs, up)

\* the tool itself only acknowledges; the state change is the runtime's
update_watchlist(ti) == Ran(Return(JStr("Watchlist updated successfully")), <<>>, NoUpstream)

get_positions(up) ==
    IF clob_client = "None" THEN Ran(Return(NotConfigured), <<>>, NoUpstream)
    ELSE LET reqs == <<[op |-> "get_positions"]>>
             positions == client_call(up)
         IN IF positions.exc THEN Ran(Return(error_result(positions.msg)), reqs, up)
            ELSE Ran(Return(JText(json_dumps(positions.val))), reqs, up)

\* place_bet with the documented ranges enforced before the order is built
place_bet_validating(token_id, side, price, size, up) ==
    IF clob_client = "None" THEN Ran(Return(NotConfigured), <<>>, NoUpstream)
    ELSE IF side.t # "str" THEN Ran(Return(error_result("AttributeError")), <<>>, NoUpstream)
    ELSE IF py_upper(side.s) \notin {"BUY", "SELL"} \/ price.n < 1 \/ price.n > 99
         THEN Ran(Return(error_result("ValueError")), <<>>, NoUpstream)
    ELSE LET reqs == <<[op |-> "create_and_post_order", token_id |-> token_id,
                        price |-> price, size |-> size, side |-> py_upper(side.s)]>>
             order == client_call(up)
         IN IF order.exc THEN Ran(Return(error_result(order.msg)), reqs, up)
            ELSE Ran(Return(JText(json_dumps(JDict(
                       [status |-> JStr("placed"), order |-> order.val])))), reqs, up)

place_bet(token_id, side, price, size, up) ==
    IF clob_client = "None" THEN Ran(Return(NotConfigured), <<>>, NoUpstream)
    ELSE IF side.t # "str" THEN Ran(Return(error_result("AttributeError")), <<>>, NoUpstream)
    ELSE LET order_side == IF py_upper(side.s) = "BUY" THEN "BUY" ELSE "SELL"
             reqs == <<[op |-> "create_and_post_order", token_id |-> token_id,
                        price |-> price, size |-> size, side |-> order_side]>>
             order == client_call(up)
         IN IF order.exc THEN Ran(Return(error_result(order.msg)), reqs, up)
            ELSE Ran(Return(JText(json_dumps(JDict(
                       [status |-> JStr("placed"), order |-> order.val])))), reqs, up)

\* cancel_order with no check that the trading client exists
cancel_order_ungated(order_id, up) ==
    LET reqs == <<[op |-> "cancel", order_id |-> order_id]>>
        res == IF clob_client = "None" THEN Raise("AttributeError") ELSE client_call(up)
    IN IF res.exc THEN Ran(Return(error_result(res.msg)), reqs, up)
       ELSE Ran(Return(JText(json_dumps(JDict(
                  [status |-> JStr("cancelled"), result |-> res.val])))), reqs, up)

cancel_order(order_id, up) ==
    IF clob_client = "None" THEN Ran(Return(NotConfigured), <<>>, NoUpstream)
    ELSE LET reqs == <<[op |-> "cancel", order_id |-> order_id]>>
             res == client_call(up)
         IN IF res.exc THEN Ran(Return(error_result(res.msg)), reqs, up)
            ELSE Ran(Return(JText(json_dumps(JDict(
                       [status |-> JStr("cancelled"), result |-> res.val])))), reqs, up)

----------------------------------------------------------------------------
(* Inputs: watchlist-update arguments *)

Market1 == JDict([id |-> JStr("m1"), question |-> JStr("Will BTC hit 100k?")])
Market2 ==
    JDict([id |-> JStr("m2"), question |-> JStr("Will it rain?"),
           outcomes |-> JList(<<JStr("Yes"), JStr("No")>>)])
MarketPool == {Market1, Market2}
Position1 ==
    JDict([market_question |-> JStr("Will BTC hit 100k?"),
           outcome |-> JStr("Yes"), size |-> JNum(10)])
PositionPool == {Position1}

SeqsUpTo(pool, n) == UNION {[1..k -> pool] : k \in 0..n}
MarketLists == SeqsUpTo(MarketPool, MaxMarkets)
PositionLists == SeqsUpTo(PositionPool, MaxPositions)
LastActions == {"", "Found 15 active markets"}

\* the arguments {markets, positions, last_action, wallet_balance}; each is
\* <<>> when not supplied and <<v>> when supplied
FlatArgs(M, Pp, A, Wb) ==
    LET o == [markets |-> M, positions |-> Pp, last_action |-> A, wallet_balance |-> Wb]
    IN JDict([k \in {x \in DOMAIN o : o[x] # <<>>} |-> o[k][1]])

\* the single nested object under "markets"
NestedArgs(M, Pp, A) ==
    JDict([markets |-> FlatArgs(<<JList(M)>>, <<JList(Pp)>>, <<JStr(A)>>, <<>>)])

\* all three of markets, positions, last_action supplied, as a list, a list and a str
CoreInputs ==
    {FlatArgs(<<JList(M)>>, <<JList(Pp)>>, <<JStr(A)>>, <<>>) :
        M \in MarketLists, Pp \in PositionLists, A \in LastActions}
\* arguments left out, null or empty
OptionalInputs ==
    {FlatArgs(M, Pp, A, Wb) :
        M \in {<<>>, <<JList(<<>>)>>, <<JList(<<Market1>>)>>},
        Pp \in {<<>>, <<None>>, <<JList(<<Position1>>)>>},
        A \in {<<>>, <<JStr("Found 15 active markets")>>},
        Wb \in {<<>>, <<JStr("")>>, <<JStr("150.00")>>}}
\* "markets" that is no list
NoListInputs ==
    {FlatArgs(M, <<JList(<<Position1>>)>>, <<>>, <<JStr("150.00")>>) :
        M \in {<<None>>, <<JStr("BTC")>>, <<JNum(3)>>}}
NestedInputs ==
    {NestedArgs(M, Pp, A) :
        M \in SeqsUpTo(MarketPool, MaxNestedMarkets),
        Pp \in {<<>>, <<Position1>>}, A \in LastActions}
OtherInputs == {None, JNum(7), JList(<<Market1>>)}
StructuredInputs ==
    CoreInputs \cup OptionalInputs \cup NoListInputs \cup NestedInputs \cup OtherInputs

\* texts that are no JSON document: empty, truncated, trailing data, a junk
\* word, a missing colon
BadTexts ==
    {<<>>,
     <<P("{"), S("markets"), P(":"), P("[")>>,
     <<P("{"), S("markets"), P(":"), P("["), P("]"), P("}"), P("}")>>,
     <<W("undefined")>>,
     <<P("{"), S("markets"), P("["), P("]"), P("}")>>}
\* the arguments as a JSON string
TextSources ==
    {FlatArgs(<<JList(M)>>, Pp, A, Wb) :
        M \in SeqsUpTo({Market2}, 1),
        Pp \in {<<>>, <<JList(<<Position1>>)>>},
        A \in {<<JStr("Found 15 active markets")>>},
        Wb \in {<<>>, <<JStr("150.00")>>}}
      \cup {FlatArgs(<<>>, <<>>, <<JStr("Found 15 active markets")>>, <<>>),
            FlatArgs(<<None>>, <<>>, <<>>, <<>>),
            NestedArgs(<<Market1>>, <<Position1>>, "Found 15 active markets")}
      \cup OtherInputs
StringInputs ==
    {JText(json_dumps(v)) : v \in TextSources}
        \cup {JText(b) : b \in BadTexts} \cup {JStr("find crypto bets")}

ToolInputs == StructuredInputs \cup StringInputs

\* a few of them, for the runs that interleave every tool
FewToolInputs ==
    {FlatArgs(<<JList(<<Market1>>)>>, <<JList(<<Position1>>)>>,
              <<JStr("Found 15 active markets")>>, <<>>),
     FlatArgs(<<JList(<<>>)>>, <<>>, <<>>, <<JStr("150.00")>>),
     NestedArgs(<<Market1>>, <<>>, ""),
     JText(<<P("{"), S("markets"), P(":"), P("[")>>),
     None}

UserMessages == {JStr("find crypto bets"), JStr("")}
NoArgs == [none |-> TRUE]

----------------------------------------------------------------------------
(* Inputs: upstream payloads *)

RECURSIVE Repeat(_, _)
Repeat(s, n) == IF n = 0 THEN "" ELSE s \o Repeat(s, n - 1)

YesNoText == JText(<<P("["), S("Yes"), P(","), S("No"), P("]")>>)
GoodMarket ==
    JDict([id |-> JStr("m1"), question |-> JStr("Will BTC hit 100k?"),
           description |-> JStr("Resolves Yes if BTC trades above 100k."),
           outcomes |-> YesNoText,
           outcomePrices |-> JText(<<P("["), S("0.6"), P(","), S("0.4"), P("]")>>),
           volume |-> JStr("1000"), volume24hr |-> JNum(50), liquidity |-> JStr("200"),
           endDate |-> JStr("2025-12-31"),
           clobTokenIds |-> JText(<<P("["), S("t1"), P(","), S("t2"), P("]")>>),
           negRisk |-> JBool(TRUE)])
GoodMarket2 == JDict(dict_set(GoodMarket.d, "id", JStr("m2")))
LongMarket == JDict(dict_set(GoodMarket.d, "description", JStr(Repeat("0123456789", 51))))

JsonFields == {"outcomes", "outcomePrices", "clobTokenIds"}
DetailFields ==
    {"id", "question", "description", "outcomes", "outcomePrices", "volume",
     "liquidity", "endDate", "clobTokenIds", "negRisk"}
SearchFields == DetailFields \ {"description", "clobTokenIds", "negRisk"}

\* mkt with field f absent, null, a text that is no JSON, or a list where a
\* JSON-encoded string is expected
Defect(mkt, f, kind) ==
    CASE kind = "absent" -> JDict([k \in DOMAIN mkt.d \ {f} |-> mkt.d[k]])
      [] kind = "null" -> JDict(dict_set(mkt.d, f, None))
      [] kind = "undecodable" ->
            JDict(dict_set(mkt.d, f, JText(<<W("Yes"), P(","), W("No")>>)))
      [] kind = "not_str" -> JDict(dict_set(mkt.d, f, JList(<<JStr("Yes")>>)))
DefectKinds(f) ==
    {"absent", "null"} \cup (IF f \in JsonFields THEN {"undecodable", "not_str"} ELSE {})
DefectMarkets(fields) ==
    UNION {{Defect(GoodMarket, f, k) : k \in DefectKinds(f)} : f \in fields}

ClientError == [kind |-> "client_error"]

ClosingCalls ==
    {[limit |-> 15, up |-> u] : u \in Failures}
      \cup {[limit |-> n, up |-> Ok(JList(l))] :
                n \in {1, 15},
                l \in SeqsUpTo({GoodMarket, Defect(GoodMarket, "outcomes", "null")},
                               MaxListing)}
      \cup {[limit |-> 15, up |-> Ok(JDict([error |-> JStr("rate limited")]))]}

EventPool ==
    {JDict(EmptyDict), JDict([markets |-> JList(<<GoodMarket, GoodMarket2>>)])}
SearchCalls ==
    {[limit |-> 10, up |-> u] : u \in Failures}
      \cup {[limit |-> n, up |-> Ok(JList(l))] :
                n \in {1, 10}, l \in SeqsUpTo(EventPool, MaxListing)}
      \cup {[limit |-> 10, up |-> Ok(JList(<<JDict([markets |-> JList(<<m>>)])>>))] :
                m \in DefectMarkets(SearchFields)}
      \cup {[limit |-> 10, up |-> Ok(JList(<<JDict([markets |-> None])>>))]}

DetailUpstreams ==
    Failures \cup {Ok(m) : m \in {GoodMarket, LongMarket} \cup DefectMarkets(DetailFields)}
      \cup {Ok(JList(<<>>))}

BookUpstreams == Failures \cup {Ok(JDict([bids |-> JList(<<>>), asks |-> JList(<<>>)]))}
HistoryUpstreams == Failures \cup {Ok(JDict([history |-> JList(<<>>)]))}

ExaSource(text) ==
    JDict([title |-> JStr("BTC outlook"), url |-> JStr("https://example.com/btc"),
           published_date |-> None, text |-> text])
ExaUpstreams ==
    {ClientError, Ok(JList(<<>>)), Ok(JList(<<ExaSource(JStr("Analysts expect..."))>>)),
     Ok(JList(<<ExaSource(None)>>))}

WalletUpstreams ==
    Failures \cup {BadKey}
      \cup {Ok(JDict([result |-> r])) :
                r \in {JStr("0x0"), JStr("0x16e360"), JStr("0x12d687"), JStr("0xzz"), None}}
      \cup {Ok(JDict([error |-> JStr("rate limited")]))}

PositionsUpstreams == {ClientError, Ok(JList(<<>>)), Ok(JList(<<Position1>>))}

\* prices and sizes in hundredths: 55 is 0.55
Sides == {JStr("BUY"), JStr("buy"), JStr("SELL"), JStr("hold"), None}
Prices == {JNum(55), JNum(0), JNum(150)}
OrderUpstreams == {ClientError, Ok(JDict([id |-> JStr("o1")]))}
CancelUpstreams == {ClientError, Ok(JDict([status |-> JStr("ok")]))}

----------------------------------------------------------------------------
(* Operations *)

Env == <<clob_env, clob_client, exa_client>>

Init ==
    /\ agent_state = AgentState
    /\ prev_state = AgentState
    /\ clob_env \in {"", "0xkey"}
    /\ clob_client \in (IF clob_env = "" THEN {"None"} ELSE {"None", "client"})
    /\ exa_client \in {"None", "client"}
    /\ last_tool = "none"
    /\ tool_input = None
    /\ upstream = NoUpstream
    /\ requests_made = <<>>
    /\ result = None
    /\ snapshot = None
    /\ raised = FALSE

\* what the caller of a tool gets back: nothing when the tool raised
returned(r) == IF r.out.exc THEN None ELSE r.out.val

\* a call of update_watchlist: the tool returns its message, and the runtime
\* runs the registered state_from_args on the call's arguments
UpdateWatchlist(inputs) ==
    \E ti \in inputs :
        \E s \in {market_state_from_args(ti)}, r \in {update_watchlist(ti)} :
            /\ last_tool' = "update_watchlist"
            /\ tool_input' = ti
            /\ snapshot' = s
            /\ agent_state' = apply_state_from_args(agent_state, s)
            /\ prev_state' = agent_state
            /\ upstream' = r.met
            /\ requests_made' = r.reqs
            /\ result' = returned(r)
            /\ raised' = r.out.exc
            /\ UNCHANGED Env

\* the runtime renders the state context before a model turn
RenderPrompt ==
    \E msg \in UserMessages :
        /\ last_tool' = "build_market_prompt"
        /\ tool_input' = msg
        /\ result' = build_market_prompt(agent_state, msg)
        /\ snapshot' = None
        /\ upstream' = NoUpstream
        /\ requests_made' = <<>>
        /\ raised' = FALSE
        /\ prev_state' = agent_state
        /\ UNCHANGED <<agent_state, Env>>

GetClosingSoonMarkets ==
    \E c \in ClosingCalls :
        \E r \in {get_closing_soon_markets(c.limit, c.up)} :
        /\ last_tool' = "get_closing_soon_markets"
        /\ tool_input' = [limit |-> c.limit]
        /\ upstream' = r.met
        /\ requests_made' = r.reqs
        /\ result' = returned(r)
        /\ raised' = r.out.exc
        /\ snapshot' = None
        /\ prev_state' = agent_state
        /\ UNCHANGED <<agent_state, Env>>

ExaResearch ==
    \E up \in ExaUpstreams :
        \E r \in {exa_research("bitcoin 100k", 5, up)} :
        /\ last_tool' = "exa_research"
        /\ tool_input' = [query |-> "bitcoin 100k", num_results |-> 5]
        /\ upstream' = r.met
        /\ requests_made' = r.reqs
        /\ result' = returned(r)
        /\ raised' = r.out.exc
        /\ snapshot' = None
        /\ prev_state' = agent_state
        /\ UNCHANGED <<agent_state, Env>>

SearchMarkets ==
    \E c \in SearchCalls :
        \E r \in {search_markets("crypto", c.limit, c.up)} :
        /\ last_tool' = "search_markets"
        /\ tool_input' = [query |-> "crypto", limit |-> c.limit]
        /\ upstream' = r.met
        /\ requests_made' = r.reqs
        /\ result' = returned(r)
        /\ raised' = r.out.exc
        /\ snapshot' = None
        /\ prev_state' = agent_state
        /\ UNCHANGED <<agent_state, Env>>

GetMarketDetails ==
    \E up \in DetailUpstreams :
        \E r \in {get_market_details("m1", up)} :
        /\ last_tool' = "get_market_details"
        /\ tool_input' = [market_id |-> "m1"]
        /\ upstream' = r.met
        /\ requests_made' = r.reqs
        /\ result' = returned(r)
        /\ raised' = r.out.exc
        /\ snapshot' = None
        /\ prev_state' = agent_state
        /\ UNCHANGED <<agent_state, Env>>

GetOrderBook ==
    \E up \in BookUpstreams :
        \E r \in {get_order_book("t1", up)} :
        /\ last_tool' = "get_order_book"
        /\ tool_input' = [token_id |-> "t1"]
        /\ upstream' = r.met
        /\ requests_made' = r.reqs
        /\ result' = returned(r)
        /\ raised' = r.out.exc
        /\ snapshot' = None
        /\ prev_state' = agent_state
        /\ UNCHANGED <<agent_state, Env>>

GetPriceHistory ==
    \E up \in HistoryUpstreams :
        \E r \in {get_price_history("t1", up)} :
        /\ last_tool' = "get_price_history"
        /\ tool_input' = [token_id |-> "t1"]
        /\ upstream' = r.met
        /\ requests_made' = r.reqs
        /\ result' = returned(r)
        /\ raised' = r.out.exc
        /\ snapshot' = None
        /\ prev_state' = agent_state
        /\ UNCHANGED <<agent_state, Env>>

\* a balance lookup that also writes the balance it found into the shared state
GetWalletBalanceWritesState ==
    \E up \in WalletUpstreams :
        \E r \in {get_wallet_balance(up)} :
        /\ last_tool' = "get_wallet_balance"
        /\ tool_input' = NoArgs
        /\ upstream' = r.met
        /\ requests_made' = r.reqs
        /\ result' = returned(r)
        /\ raised' = r.out.exc
        /\ snapshot' = None
        /\ prev_state' = agent_state
        /\ agent_state' = JDict(dict_set(agent_state.d, "wallet_balance", returned(r)))
        /\ UNCHANGED Env

GetWalletBalance ==
    \E up \in WalletUpstreams :
        \E r \in {get_wallet_balance(up)} :
        /\ last_tool' = "get_wallet_balance"
        /\ tool_input' = NoArgs
        /\ upstream' = r.met
        /\ requests_made' = r.reqs
        /\ result' = returned(r)
        /\ raised' = r.out.exc
        /\ snapshot' = None
        /\ prev_state' = agent_state
        /\ UNCHANGED <<agent_state, Env>>

GetPositions ==
    \E up \in PositionsUpstreams :
        \E r \in {get_positions(up)} :
        /\ last_tool' = "get_positions"
        /\ tool_input' = NoArgs
        /\ upstream' = r.met
        /\ requests_made' = r.reqs
        /\ result' = returned(r)
        /\ raised' = r.out.exc
        /\ snapshot' = None
        /\ prev_state' = agent_state
        /\ UNCHANGED <<agent_state, Env>>

PlaceBet ==
    \E side \in Sides, price \in Prices, up \in OrderUpstreams :
        \E r \in {place_bet("t1", side, price, JNum(1000), up)} :
        /\ last_tool' = "place_bet"
        /\ tool_input' = [token_id |-> "t1", side |-> side, price |-> price, size |-> JNum(1000)]
        /\ upstream' = r.met
        /\ requests_made' = r.reqs
        /\ result' = returned(r)
        /\ raised' = r.out.exc
        /\ snapshot' = None
        /\ prev_state' = agent_state
        /\ UNCHANGED <<agent_state, Env>>

CancelOrder ==
    \E up \in CancelUpstreams :
        \E r \in {cancel_order("o1", up)} :
        /\ last_tool' = "cancel_order"
        /\ tool_input' = [order_id |-> "o1"]
        /\ upstream' = r.met
        /\ requests_made' = r.reqs
        /\ result' = returned(r)
        /\ raised' = r.out.exc
        /\ snapshot' = None
        /\ prev_state' = agent_state
        /\ UNCHANGED <<agent_state, Env>>

Next ==
    \/ UpdateWatchlist(FewToolInputs)
    \/ RenderPrompt
    \/ GetClosingSoonMarkets
    \/ ExaResearch
    \/ SearchMarkets
    \/ GetMarketDetails
    \/ GetOrderBook
    \/ GetPriceHistory
    \/ GetWalletBalance
    \/ GetPositions
    \/ PlaceBet
    \/ CancelOrder

Spec == Init /\ [][Next]_vars

\* the state bridge alone, over the full set of update arguments; it reads no
\* configuration, which is left at "no key set"
InitBridge == Init /\ clob_env = "" /\ exa_client = "None"
NextBridge ==
    \/ UpdateWatchlist(ToolInputs)
    \/ RenderPrompt
SpecBridge == InitBridge /\ [][NextBridge]_vars

----------------------------------------------------------------------------
(* Claims about the state bridge, checked under SpecBridge *)

Updated == last_tool = "update_watchlist"

\* the arguments of the last call once a JSON string is decoded; None when
\* the string does not decode
Decoded(ti) ==
    IF IsStr(ti)
    THEN (IF json_loads(ti).exc THEN None ELSE json_loads(ti).val)
    ELSE ti

\* flat convention with markets, positions and last_action supplied as a
\* list, a list and a str, and nothing else
IsFlatMPA(a) ==
    /\ a.t = "dict"
    /\ DOMAIN a.d = {"markets", "positions", "last_action"}
    /\ a.d["markets"].t = "list"
    /\ a.d["positions"].t = "list"
    /\ a.d["last_action"].t = "str"

\* nested convention: one object under "markets" holding the three fields
IsNestedMPA(a) ==
    /\ a.t = "dict"
    /\ DOMAIN a.d = {"markets"}
    /\ IsFlatMPA(a.d["markets"])

\* C1: the nested calling convention {"markets": {markets, positions,
\* last_action}} extracts the same state mapping as the flat one.
C1_NestedEqualsFlat ==
    (Updated /\ IsNestedMPA(tool_input))
        => snapshot = market_state_from_args(tool_input.d["markets"])

\* the arguments are an undecodable string, or decode to something that is
\* neither calling convention: no mapping, or a mapping whose "markets" is
\* neither a list nor a nested object
UnparseableString(ti) == IsStr(ti) /\ json_loads(ti).exc
UnrecognizedShape(ti) ==
    /\ ~UnparseableString(ti)
    /\ LET a == Decoded(ti) IN
       \/ a.t # "dict"
       \/ ("markets" \in DOMAIN a.d /\ a.d["markets"].t \notin {"list", "dict"})

\* C3: for an unparseable argument string or an unrecognized shape the
\* extractor returns None without raising, and the shared state after the
\* call is the state before it.
C3_MalformedArgsNoUpdate ==
    (Updated /\ (UnparseableString(tool_input) \/ UnrecognizedShape(tool_input)))
        => (snapshot = None /\ ~raised /\ agent_state = prev_state)

C3_Witness ==
    /\ Updated
    /\ UnparseableString(tool_input)
    /\ snapshot = None
    /\ agent_state = prev_state
    /\ Truthy(agent_state.d["markets"])

\* the snapshot the arguments a alone determine
wallet_supplied(a) == "wallet_balance" \in DOMAIN a /\ Truthy(a["wallet_balance"])
snapshot_keys(a) ==
    {"markets", "positions", "last_action"}
        \cup (IF wallet_supplied(a) THEN {"wallet_balance"} ELSE {})

\* C4: after a recognized watchlist update the shared state is the snapshot of
\* that call's arguments alone: its keys and values come from the arguments,
\* whatever the state was before, so nothing of an earlier snapshot survives.
C4_WholeReplacement ==
    (Updated /\ snapshot # None) =>
        LET a == Decoded(tool_input).d IN
        /\ agent_state = snapshot
        /\ DOMAIN agent_state.d = snapshot_keys(a)
        /\ agent_state.d["markets"] = dict_get(a, "markets", JList(<<>>))
        /\ agent_state.d["positions"] =
              (IF "positions" \in DOMAIN a /\ Truthy(a["positions"])
               THEN a["positions"] ELSE JList(<<>>))
        /\ agent_state.d["last_action"] = dict_get(a, "last_action", JStr(""))
        /\ wallet_supplied(a) => agent_state.d["wallet_balance"] = a["wallet_balance"]

\* an update that omits wallet_balance, after a state that held one
C4_Witness ==
    /\ Updated
    /\ snapshot # None
    /\ "wallet_balance" \in DOMAIN prev_state.d
    /\ Truthy(prev_state.d["wallet_balance"])
    /\ Truthy(prev_state.d["markets"])
    /\ "wallet_balance" \notin DOMAIN Decoded(tool_input).d
    /\ "wallet_balance" \notin DOMAIN agent_state.d

\* C7: flat arguments with markets M, positions P and last_action A and no
\* wallet_balance extract to exactly {markets: M, positions: P, last_action: A}.
C7_FlatVerbatim ==
    (Updated /\ IsFlatMPA(Decoded(tool_input))) =>
        /\ snapshot.t = "dict"
        /\ DOMAIN snapshot.d = {"markets", "positions", "last_action"}
        /\ snapshot.d["markets"] = Decoded(tool_input).d["markets"]
        /\ snapshot.d["positions"] = Decoded(tool_input).d["positions"]
        /\ snapshot.d["last_action"] = Decoded(tool_input).d["last_action"]

C7_Witness ==
    /\ Updated
    /\ IsFlatMPA(tool_input)
    /\ Len(tool_input.d["markets"].items) = 2
    /\ tool_input.d["markets"].items[1] # tool_input.d["markets"].items[2]
    /\ Len(tool_input.d["positions"].items) = 1
    /\ tool_input.d["last_action"] # JStr("")
    /\ snapshot = tool_input

Rendered == last_tool = "build_market_prompt"
NonEmpty(st, key) == key \in DOMAIN st.d /\ Truthy(st.d[key])
SectionKeys == <<"markets", "positions", "wallet_balance", "last_action">>
Header(key) ==
    CASE key = "markets" -> Lit("Current watchlist:\n")
      [] key = "positions" -> Lit("Current positions:\n")
      [] key = "wallet_balance" -> Lit("Wallet USDC balance: ")
      [] key = "last_action" -> Lit("Last action: ")
Headers == {Header(SectionKeys[i]) : i \in 1..4}
\* the section headers of a rendered prompt, in the order they appear
headers_in(toks) == SelectSeq(toks, LAMBDA tk : tk \in Headers)
\* the headers of the non-empty fields of st, in the fixed order
headers_for(st) ==
    [i \in 1..Cardinality({j \in 1..4 : NonEmpty(st, SectionKeys[j])}) |->
        Header(SectionKeys[CHOOSE j \in 1..4 :
            /\ NonEmpty(st, SectionKeys[j])
            /\ Cardinality({h \in 1..j : NonEmpty(st, SectionKeys[h])}) = i])]

\* C8: with at least one non-empty field the prompt holds one section per
\* non-empty field and no other, in the order watchlist, positions, balance,
\* last action, blank lines between them, then a blank line and "User
\* request: <message>"; a watchlist alone gives exactly its section, the
\* blank line and the request.
C8_PromptSections ==
    (Rendered /\ \E i \in 1..4 : NonEmpty(agent_state, SectionKeys[i])) =>
        LET toks == result.toks
            n == Len(toks)
        IN /\ result.t = "text"
           /\ headers_in(toks) = headers_for(agent_state)
           /\ toks[1] \in Headers
           /\ \A i \in 2..n : toks[i] \in Headers => toks[i - 1] = Lit("\n\n")
           /\ \A i \in 1..n : toks[i] = Lit("\n\n") => toks[i + 1] \in Headers
           /\ SubSeq(toks, n - 1, n) = <<Lit("\n\nUser request: ")>> \o py_str(tool_input)
           /\ (\A i \in 2..4 : ~NonEmpty(agent_state, SectionKeys[i])) =>
                 toks = <<Lit("Current watchlist:\n")>>
                          \o json_dumps(agent_state.d["markets"])
                          \o <<Lit("\n\nUser request: "), Lit(tool_input.s)>>

C8_Witness ==
    /\ Rendered
    /\ \A i \in 1..4 : NonEmpty(agent_state, SectionKeys[i])
    /\ tool_input = JStr("find crypto bets")
    /\ Len(headers_in(result.toks)) = 4

\* C10: arguments that are a mapping with no "markets" key extract to a
\* snapshot with an empty markets list, which replaces the state: the
\* watchlist is cleared.
C10_MissingMarketsClears ==
    (Updated /\ Decoded(tool_input).t = "dict"
             /\ "markets" \notin DOMAIN Decoded(tool_input).d) =>
        /\ snapshot # None
        /\ snapshot.d["markets"] = JList(<<>>)
        /\ agent_state.d["markets"] = JList(<<>>)

C10_Witness ==
    /\ Updated
    /\ tool_input.t = "dict"
    /\ DOMAIN tool_input.d = {"last_action"}
    /\ Truthy(prev_state.d["markets"])
    /\ agent_state.d["markets"] = JList(<<>>)

----------------------------------------------------------------------------
(* Claims about the tool library, checked under Spec *)

GatedTools == {"place_bet", "cancel_order", "get_positions", "get_wallet_balance"}
NoCredential == clob_env = ""

IsErrorObject(res) ==
    /\ IsStr(res)
    /\ ~json_loads(res).exc
    /\ json_loads(res).val.t = "dict"
    /\ DOMAIN json_loads(res).val.d = {"error"}
    /\ json_loads(res).val.d["error"].t = "str"

UpstreamFailed == upstream.kind \in {"network_error", "http_error", "client_error"}

\* C5: whenever the outbound call of a tool fails (the request or the client
\* call raises, or the status is not 2xx) the tool returns a JSON object whose
\* only key is "error" with a string value, and no exception leaves the tool.
C5_FailureGivesErrorObject ==
    UpstreamFailed => (~raised /\ Len(requests_made) = 1 /\ IsErrorObject(result))

C5_Witness ==
    /\ last_tool = "get_price_history"
    /\ upstream = HttpError
    /\ IsErrorObject(result)

\* field f of an upstream market is missing or malformed: absent, null, or
\* (for the JSON-encoded fields) not decodable
FieldDefective(mkt, f) ==
    \/ f \notin DOMAIN mkt.d
    \/ mkt.d[f] = None
    \/ (f \in JsonFields /\ json_loads(mkt.d[f]).exc)

\* the key a consumed field is reported under, and its documented default
OutKey(f) ==
    CASE f = "outcomePrices" -> "outcome_prices"
      [] f = "endDate" -> "end_date"
      [] f = "clobTokenIds" -> "clob_token_ids"
      [] f = "negRisk" -> "neg_risk"
      [] OTHER -> f
DefaultOf(f) ==
    CASE f \in JsonFields -> JList(<<>>)
      [] f \in {"volume", "liquidity"} -> JStr("0")
      [] f = "negRisk" -> JBool(FALSE)
      [] OTHER -> JStr("")

\* the one market of a search payload of one event with one market
SoleSearchMarket == upstream.body.items[1].d["markets"].items[1]
IsSoleSearchPayload ==
    /\ upstream.kind = "ok"
    /\ upstream.body.t = "list"
    /\ Len(upstream.body.items) = 1
    /\ "markets" \in DOMAIN upstream.body.items[1].d
    /\ upstream.body.items[1].d["markets"].t = "list"
    /\ Len(upstream.body.items[1].d["markets"].items) = 1

\* C6: when a consumed field of the upstream market is missing or malformed,
\* get_market_details and search_markets succeed and report that field at its
\* documented default.
C6_DefectGivesDefault ==
    /\ (last_tool = "get_market_details" /\ upstream.kind = "ok" /\ upstream.body.t = "dict") =>
          \A f \in DetailFields :
              FieldDefective(upstream.body, f) =>
                  /\ ~raised
                  /\ ~json_loads(result).exc
                  /\ json_loads(result).val.t = "dict"
                  /\ OutKey(f) \in DOMAIN json_loads(result).val.d
                  /\ json_loads(result).val.d[OutKey(f)] = DefaultOf(f)
    /\ (last_tool = "search_markets" /\ IsSoleSearchPayload) =>
          \A f \in SearchFields :
              FieldDefective(SoleSearchMarket, f) =>
                  /\ ~raised
                  /\ ~json_loads(result).exc
                  /\ json_loads(result).val.t = "list"
                  /\ Len(json_loads(result).val.items) = 1
                  /\ OutKey(f) \in DOMAIN json_loads(result).val.items[1].d
                  /\ json_loads(result).val.items[1].d[OutKey(f)] = DefaultOf(f)

\* C9: the shared state starts as the empty AgentState, and every step that
\* changes it is a watchlist update: no other tool and no prompt rendering
\* changes it.
C9_OnlyUpdateChangesState ==
    /\ agent_state = AgentState
    /\ [][agent_state' # agent_state => last_tool' = "update_watchlist"]_vars

C9_Witness ==
    /\ last_tool = "get_wallet_balance"
    /\ upstream.kind = "ok"
    /\ agent_state # AgentState
    /\ agent_state = prev_state

\* the spellings of "BUY" in either case of each letter
BuySpellings ==
    {b \o u \o y : b \in {"B", "b"}, u \in {"U", "u"}, y \in {"Y", "y"}}

\* the order a place_bet call with a str side must hand to the trading client
SubmittedOrder ==
    [op |-> "create_and_post_order",
     token_id |-> tool_input.token_id,
     price |-> tool_input.price,
     size |-> tool_input.size,
     side |-> IF tool_input.side.s \in BuySpellings THEN "BUY" ELSE "SELL"]

PriceInRange(p) == p.n >= 1 /\ p.n <= 99

\* C11: with the trading client configured, place_bet with a str side never
\* stops before the outbound call: exactly one order is submitted, as a BUY
\* when the side is "BUY" in any letter case and as a SELL for every other
\* string, with token, price and size as given, whatever the price.
C11_NoArgumentValidation ==
    (last_tool = "place_bet" /\ clob_client = "client" /\ tool_input.side.t = "str")
        => requests_made = <<SubmittedOrder>>

\* an unknown side at a price above 0.99 went out as a SELL at that price
C11_Witness ==
    /\ last_tool = "place_bet"
    /\ clob_client = "client"
    /\ tool_input.side = JStr("hold")
    /\ ~PriceInRange(tool_input.price)
    /\ Len(requests_made) = 1
    /\ requests_made[1].side = "SELL"
    /\ requests_made[1].price = JNum(150)
    /\ upstream.kind = "ok"
    /\ result.t = "text"

====
